---- MODULE Spec2Model ----
(***************************************************************************)
(* The account lifecycle handlers of auth-service/api/api.go (signup,      *)
(* signin, logout, verify, sendReset, resetPassword) over the `users`      *)
(* table.  Every handler runs in its own goroutine; one step of the model  *)
(* is the handler's code up to and including its next call to the store,   *)
(* the claims signer or the mailer, so the steps of different requests     *)
(* interleave exactly where the Go code can be preempted with an effect.   *)
(*                                                                         *)
(* Collaborator calls may fail (the err != nil branches); a failing call   *)
(* is an input of the step.  A handler that calls err.Error() on a nil     *)
(* err panics: net/http recovers, drops the buffered response and closes   *)
(* the connection, which the model records as resp.panicked.               *)
(*                                                                         *)
(* Only POST requests are modelled; the OPTIONS preflight returns before   *)
(* any handler code that touches state.                                    *)
(***************************************************************************)
EXTENDS Integers, Sequences, FiniteSets, TLC

VARIABLES
    users,      \* the rows of the `users` table, in insertion order
    pc,         \* pc[p]: where handler goroutine p stands
    req,        \* req[p]: the request p serves (its parsed inputs)
    loc,        \* loc[p]: the handler's local variables
    resp,       \* resp[p]: what p has written to its http.ResponseWriter
    mail,       \* mail[p]: the e-mails p has handed to SendEmail
    accepted    \* number of requests accepted so far

vars == <<users, pc, req, loc, resp, mail, accepted>>

----------------------------------------------------------------------------
(* Bounds of the model *)

MaxRows == 2            \* rows the table can hold
MaxRequests == 4        \* requests served in one behaviour
MaxClock == 1           \* seconds the clock can advance while one request runs
NumHandlers == 2        \* handler goroutines that can run at the same time

Procs == 1..NumHandlers

(* Inputs *)
Usernames == {"alice", "bob"}
Emails    == {"alice@x.com", "bob@x.com"}
Passwords == {"pw1", "pw2"}

----------------------------------------------------------------------------
(* Program constants *)

verifyTokenSize == 6
resetTokenSize  == 6

\* time.Duration constants declared elsewhere in package api, in seconds
DefaultAccessJWTExpiry  == 2
DefaultRefreshJWTExpiry == 4
defaultJWTIssuer == "auth-service"

\* SQL NULL: the value of a column the INSERT of signup does not name
NULL == "<NULL>"
\* a hashedPassword/password column holding no hash
NoHash == <<>>

----------------------------------------------------------------------------
(* Collaborators *)

\* GetRandomBase62(n): a random token of n base-62 symbols; two draws can
\* collide, so the model draws from two values per size.
GetRandomBase62(n) == IF n = 6 THEN {"T1", "T2"} ELSE {}

\* bcrypt.GenerateFromPassword(password, DefaultCost)
GenerateFromPassword(password) == <<"$2a$", password>>

\* bcrypt.CompareHashAndPassword(hash, password) = nil
CompareHashAndPassword(hashed, password) ==
    /\ Len(hashed) = 2
    /\ hashed[1] = "$2a$"
    /\ hashed[2] = password

\* setClaims(AuthClaims{...}): the signed token over the claims
setClaims(claims) == <<claims>>

\* "col = ?" of SQL: never true of a NULL column
SqlEq(col, v) == col # NULL /\ col = v

----------------------------------------------------------------------------
(* http.ResponseWriter *)

NoResponse == [status |-> 0, body |-> "", cookies |-> <<>>, panicked |-> FALSE]

\* http.Error(w, msg, code)
Error(r, msg, code) == [r EXCEPT !.status = code, !.body = msg]
\* http.SetCookie(w, c)
SetCookie(r, c) == [r EXCEPT !.cookies = Append(@, c)]
\* w.WriteHeader(code)
WriteHeader(r, code) == [r EXCEPT !.status = code]
\* returning from the handler without a status written sends 200
Return(r) == IF r.status = 0 THEN [r EXCEPT !.status = 200] ELSE r
\* log.Print(err.Error()) with err == nil: the goroutine panics
Panic(r) == [r EXCEPT !.panicked = TRUE]

NoRequest == [op |-> "", username |-> "", email |-> "", password |-> "",
              token |-> "", query |-> <<>>]
NoLocals  == [hashed |-> NoHash, newToken |-> "", userID |-> 0, clock |-> 0]

----------------------------------------------------------------------------
Init ==
    /\ users = <<>>
    /\ pc = [p \in Procs |-> "idle"]
    /\ req = [p \in Procs |-> NoRequest]
    /\ loc = [p \in Procs |-> NoLocals]
    /\ resp = [p \in Procs |-> NoResponse]
    /\ mail = [p \in Procs |-> <<>>]
    /\ accepted = 0

\* the server hands an incoming request to a fresh goroutine
Accept(p, r) ==
    /\ pc[p] = "idle"
    /\ accepted < MaxRequests
    /\ accepted' = accepted + 1
    /\ req' = [req EXCEPT ![p] = r]

\* the handler returns: p ends in "done" with response r
Finish(p, r) ==
    /\ pc' = [pc EXCEPT ![p] = "done"]
    /\ resp' = [resp EXCEPT ![p] = Return(r)]

\* the response is sent (or the connection dropped) and the goroutine ends
Respond(p) ==
    /\ pc[p] = "done"
    /\ pc' = [pc EXCEPT ![p] = "idle"]
    /\ req' = [req EXCEPT ![p] = NoRequest]
    /\ loc' = [loc EXCEPT ![p] = NoLocals]
    /\ resp' = [resp EXCEPT ![p] = NoResponse]
    /\ mail' = [mail EXCEPT ![p] = <<>>]
    /\ UNCHANGED <<users, accepted>>

----------------------------------------------------------------------------
(* logout *)

\* logout with the cookies expiring at the time of the call
logout_expiresNow(p) ==
    \E t \in 0..MaxClock :
        LET expiresAt == t
            r1 == SetCookie(NoResponse,
                    [Name |-> "access_token", Value |-> <<>>, Expires |-> expiresAt])
            r2 == SetCookie(r1,
                    [Name |-> "refresh_token", Value |-> <<>>, Expires |-> expiresAt])
        IN  /\ Accept(p, [NoRequest EXCEPT !.op = "logout"])
            /\ loc' = [loc EXCEPT ![p].clock = t]
            /\ Finish(p, r2)
            /\ UNCHANGED <<users, mail>>

logout(p) ==
    \E t \in 0..MaxClock :
        LET expiresAt == t
            r1 == SetCookie(NoResponse,
                    [Name |-> "access_token", Value |-> <<>>,
                     Expires |-> expiresAt - DefaultAccessJWTExpiry])
            r2 == SetCookie(r1,
                    [Name |-> "refresh_token", Value |-> <<>>,
                     Expires |-> expiresAt - DefaultRefreshJWTExpiry])
        IN  /\ Accept(p, [NoRequest EXCEPT !.op = "logout"])
            /\ loc' = [loc EXCEPT ![p].clock = t]
            /\ Finish(p, r2)
            /\ UNCHANGED <<users, mail>>

(* the users table *)

Rows == 1..Len(users)

\* SELECT EXISTS(SELECT * FROM users WHERE username = ?)
ExistsUsername(username) == \E i \in Rows : SqlEq(users[i].username, username)

\* SELECT EXISTS(SELECT * FROM users WHERE email = ?)
ExistsEmail(email) == \E i \in Rows : SqlEq(users[i].email, email)

\* the INSERT with the verified column defaulting to 1
NewRow_verified(username, email, hashed, newToken, newUUID) ==
    [username |-> username, email |-> email, hashedPassword |-> hashed,
     verifiedToken |-> newToken, userId |-> newUUID,
     verified |-> 1, resetToken |-> NULL, password |-> NoHash]

\* INSERT INTO users (username, email, hashedPassword, verifiedToken, userId):
\* the columns the statement does not name take their defaults
NewRow(username, email, hashed, newToken, newUUID) ==
    [username |-> username, email |-> email, hashedPassword |-> hashed,
     verifiedToken |-> newToken, userId |-> newUUID,
     verified |-> 0, resetToken |-> NULL, password |-> NoHash]

\* p moves on to its next call with response r
Continue(p, next, r) ==
    /\ pc' = [pc EXCEPT ![p] = next]
    /\ resp' = [resp EXCEPT ![p] = r]

\* time.Now(): the clock never runs backwards while a request is served
Now(p) == loc[p].clock..MaxClock

\* One session cookie: expiry read from the clock, claims signed with a second
\* reading of the clock as IssuedAt, cookie set (signup 133-192, signin 257-314).
issueToken(p, cookie, subject, expiry, errmsg, next) ==
    \E signErr \in BOOLEAN, t1 \in Now(p) :
      \E t2 \in t1..MaxClock :
        LET expiresAt == t1 + expiry
            token == setClaims([UserID |-> loc[p].userID, Subject |-> subject,
                                ExpiresAt |-> expiresAt,
                                Issuer |-> defaultJWTIssuer, IssuedAt |-> t2])
            set == SetCookie(resp[p], [Name |-> cookie, Value |-> token,
                                       Expires |-> expiresAt])
        IN  IF signErr
            THEN /\ Finish(p, Error(resp[p], errmsg, 500))
                 /\ UNCHANGED loc
            ELSE /\ loc' = [loc EXCEPT ![p].clock = t2]
                 /\ IF next = "done" THEN Finish(p, set)
                                     ELSE Continue(p, next, set)

----------------------------------------------------------------------------
(* signup *)

\* lines 56-75: read the inputs, check that the username is free
signup(p) ==
    \E username \in Usernames, email \in Emails, password \in Passwords,
       dbErr \in BOOLEAN :
        /\ Accept(p, [NoRequest EXCEPT !.op = "signup", !.username = username,
                                       !.email = email, !.password = password])
        /\ IF dbErr
           THEN Finish(p, Error(NoResponse, "error checking if username exists", 500))
           ELSE IF ExistsUsername(username)
           THEN Finish(p, Error(NoResponse, "this username is taken", 409))
           ELSE Continue(p, "signup_email", NoResponse)
        /\ UNCHANGED <<users, loc, mail>>

\* signup without the check of the email
signup_email_unchecked(p) ==
    \E dbErr \in BOOLEAN :
        /\ pc[p] = "signup_email"
        /\ IF dbErr
           THEN Finish(p, Error(resp[p], "error checking if email exists", 500))
           ELSE Continue(p, "signup_hash", resp[p])
        /\ UNCHANGED <<users, req, loc, mail, accepted>>

\* lines 77-93: check that the email is free
signup_email(p) ==
    \E dbErr \in BOOLEAN :
        /\ pc[p] = "signup_email"
        /\ IF dbErr
           THEN Finish(p, Error(resp[p], "error checking if email exists", 500))
           ELSE IF ExistsEmail(req[p].email)
           THEN Finish(p, Error(resp[p], "this email is taken", 409))
           ELSE Continue(p, "signup_hash", resp[p])
        /\ UNCHANGED <<users, req, loc, mail, accepted>>

\* lines 95-120: hash the password, check the hash, draw the verification token
signup_hash(p) ==
    \E hashErr \in BOOLEAN, newToken \in GetRandomBase62(verifyTokenSize) :
        LET hashed == GenerateFromPassword(req[p].password)
        IN  /\ pc[p] = "signup_hash"
            /\ IF hashErr
               THEN /\ Finish(p, Error(resp[p], "error encrypting password", 500))
                    /\ UNCHANGED loc
               ELSE IF ~CompareHashAndPassword(hashed, req[p].password)
               THEN /\ Finish(p, Error(resp[p], "hashed password does not match original", 409))
                    /\ UNCHANGED loc
               ELSE /\ Continue(p, "signup_insert", resp[p])
                    /\ loc' = [loc EXCEPT ![p].hashed = hashed,
                                          ![p].newToken = newToken]
            /\ UNCHANGED <<users, req, mail, accepted>>

\* signup storing the row without the hash it computed
signup_insert_nohash(p) ==
    \E dbErr \in BOOLEAN :
        LET newUUID == Len(users) + 1
        IN  /\ pc[p] = "signup_insert"
            /\ IF dbErr
               THEN /\ Finish(p, Error(resp[p], "issue storing credentials", 500))
                    /\ UNCHANGED <<users, loc>>
               ELSE /\ Len(users) < MaxRows
                    /\ users' = Append(users,
                          NewRow(req[p].username, req[p].email, NoHash,
                                 loc[p].newToken, newUUID))
                    /\ loc' = [loc EXCEPT ![p].userID = newUUID]
                    /\ Continue(p, "signup_access", resp[p])
            /\ UNCHANGED <<req, mail, accepted>>

\* lines 116, 122-131: store the credentials under a fresh userId
signup_insert(p) ==
    \E dbErr \in BOOLEAN :
        LET newUUID == Len(users) + 1
        IN  /\ pc[p] = "signup_insert"
            /\ IF dbErr
               THEN /\ Finish(p, Error(resp[p], "issue storing credentials", 500))
                    /\ UNCHANGED <<users, loc>>
               ELSE /\ Len(users) < MaxRows
                    /\ users' = Append(users,
                          NewRow(req[p].username, req[p].email, loc[p].hashed,
                                 loc[p].newToken, newUUID))
                    /\ loc' = [loc EXCEPT ![p].userID = newUUID]
                    /\ Continue(p, "signup_access", resp[p])
            /\ UNCHANGED <<req, mail, accepted>>

\* signup going on to the refresh token after a failed signing (no return)
signup_access_noreturn(p) ==
    /\ pc[p] = "signup_access"
    /\ \/ issueToken(p, "access_token", "access", DefaultAccessJWTExpiry,
                     "error generating access token", "signup_refresh")
       \/ /\ Continue(p, "signup_refresh",
                      Error(resp[p], "error generating access token", 500))
          /\ UNCHANGED loc
    /\ UNCHANGED <<users, req, mail, accepted>>

\* lines 133-165: the access token
signup_access(p) ==
    /\ pc[p] = "signup_access"
    /\ issueToken(p, "access_token", "access", DefaultAccessJWTExpiry,
                  "error generating access token", "signup_refresh")
    /\ UNCHANGED <<users, req, mail, accepted>>

\* lines 167-192: the refresh token
signup_refresh(p) ==
    /\ pc[p] = "signup_refresh"
    /\ issueToken(p, "refresh_token", "refresh", DefaultRefreshJWTExpiry,
                  "error creating refreshToken", "signup_mail")
    /\ UNCHANGED <<users, req, mail, accepted>>

\* signup reporting a failed e-mail with the message of a failed INSERT
signup_mail_storageMsg(p) ==
    \E mailErr \in BOOLEAN :
        /\ pc[p] = "signup_mail"
        /\ IF mailErr
           THEN /\ Finish(p, Error(resp[p], "issue storing credentials", 500))
                /\ UNCHANGED mail
           ELSE /\ mail' = [mail EXCEPT ![p] = Append(@,
                      [to |-> req[p].email, subject |-> "Email Verification",
                       template |-> "user-signup.html", Token |-> loc[p].newToken])]
                /\ Finish(p, WriteHeader(resp[p], 201))
        /\ UNCHANGED <<users, req, loc, accepted>>

\* lines 194-203: the verification e-mail, then 201 Created
signup_mail(p) ==
    \E mailErr \in BOOLEAN :
        /\ pc[p] = "signup_mail"
        /\ IF mailErr
           THEN /\ Finish(p, Error(resp[p], "error sending verification email", 500))
                /\ UNCHANGED mail
           ELSE /\ mail' = [mail EXCEPT ![p] = Append(@,
                      [to |-> req[p].email, subject |-> "Email Verification",
                       template |-> "user-signup.html", Token |-> loc[p].newToken])]
                /\ Finish(p, WriteHeader(resp[p], 201))
        /\ UNCHANGED <<users, req, loc, accepted>>

----------------------------------------------------------------------------
(* signin *)

\* line 245: the password is compared with the hashedPassword column of row i
SigninVerifies(i, password) ==
    CompareHashAndPassword(users[i].hashedPassword, password)

\* signin without the comparison of the password
signin_uncompared(p) ==
    \E email \in Emails, password \in Passwords,
       decodeErr \in BOOLEAN, dbErr \in BOOLEAN :
        /\ Accept(p, [NoRequest EXCEPT !.op = "signin", !.email = email,
                                       !.password = password])
        /\ IF decodeErr
           THEN /\ Finish(p, Error(NoResponse, "issue storing credentials", 500))
                /\ UNCHANGED loc
           ELSE IF dbErr
           THEN /\ Finish(p, Error(NoResponse,
                        "error retrieving information with this email", 500))
                /\ UNCHANGED loc
           ELSE IF ~ExistsEmail(email)
           THEN /\ Finish(p, Error(NoResponse,
                        "this email is not associated with an account", 404))
                /\ UNCHANGED loc
           ELSE \E i \in Rows :
                    /\ SqlEq(users[i].email, email)
                    /\ Continue(p, "signin_access", NoResponse)
                    /\ loc' = [loc EXCEPT ![p].hashed = users[i].hashedPassword,
                                          ![p].userID = users[i].userId]
        /\ UNCHANGED <<users, mail>>

\* lines 216-253: decode the credentials, fetch the row of the email, compare
signin(p) ==
    \E email \in Emails, password \in Passwords,
       decodeErr \in BOOLEAN, dbErr \in BOOLEAN :
        /\ Accept(p, [NoRequest EXCEPT !.op = "signin", !.email = email,
                                       !.password = password])
        /\ IF decodeErr
           THEN /\ Finish(p, Error(NoResponse, "issue storing credentials", 500))
                /\ UNCHANGED loc
           ELSE IF dbErr
           THEN /\ Finish(p, Error(NoResponse,
                        "error retrieving information with this email", 500))
                /\ UNCHANGED loc
           ELSE IF ~ExistsEmail(email)
           THEN /\ Finish(p, Error(NoResponse,
                        "this email is not associated with an account", 404))
                /\ UNCHANGED loc
           ELSE \E i \in Rows :
                    /\ SqlEq(users[i].email, email)
                    /\ IF ~SigninVerifies(i, password)
                       THEN /\ Finish(p, Error(NoResponse, "incorrect password", 500))
                            /\ UNCHANGED loc
                       ELSE /\ Continue(p, "signin_access", NoResponse)
                            /\ loc' = [loc EXCEPT ![p].hashed = users[i].hashedPassword,
                                                  ![p].userID = users[i].userId]
        /\ UNCHANGED <<users, mail>>

\* lines 255-286: the access token
signin_access(p) ==
    /\ pc[p] = "signin_access"
    /\ issueToken(p, "access_token", "access", DefaultAccessJWTExpiry,
                  "error generating access token", "signin_refresh")
    /\ UNCHANGED <<users, req, mail, accepted>>

\* lines 288-315: the refresh token, then the handler returns
signin_refresh(p) ==
    /\ pc[p] = "signin_refresh"
    /\ issueToken(p, "refresh_token", "refresh", DefaultRefreshJWTExpiry,
                  "error creating refreshToken", "done")
    /\ UNCHANGED <<users, req, mail, accepted>>

----------------------------------------------------------------------------
(* verify *)

\* r.URL.Query()["token"]: every value the query string gives the key
TokenQueries == {<<>>, <<"">>} \cup {<<t>> : t \in GetRandomBase62(verifyTokenSize)}

\* database/sql turns each statement argument into a driver.Value (int64,
\* float64, bool, []byte, string, time.Time); a []string is none of them and
\* the call returns (nil, err) without reaching the database.
DriverValues == {"int", "string", "[]byte"}
ConvertArgs(types) == \A k \in 1..Len(types) : types[k] \in DriverValues

\* UPDATE users SET verified = 1 WHERE verifiedToken = ?
SetVerified(arg) ==
    [i \in Rows |-> IF SqlEq(users[i].verifiedToken, arg)
                    THEN [users[i] EXCEPT !.verified = 1] ELSE users[i]]

\* verify handing token[0], a string, to DB.Exec
verify_firstValue(p) ==
    \E token \in TokenQueries, dbErr \in BOOLEAN :
        LET ok == Len(token) > 0
            execErr == ~ConvertArgs(<<"int", "string">>) \/ dbErr
        IN  /\ Accept(p, [NoRequest EXCEPT !.op = "verify", !.query = token])
            /\ IF ~ok \/ token[1] = ""
               THEN /\ Finish(p, Error(NoResponse, "url Param 'token' is missing", 500))
                    /\ UNCHANGED users
               ELSE IF execErr
               THEN /\ Finish(p, Error(NoResponse, "invalid token", 404))
                    /\ UNCHANGED users
               ELSE /\ users' = SetVerified(token[1])
                    /\ Finish(p, NoResponse)
            /\ UNCHANGED <<loc, mail>>

\* lines 345-370: token is the []string of the query values, and it is the
\* slice, not token[0], that is handed to DB.Exec
verify(p) ==
    \E token \in TokenQueries, dbErr \in BOOLEAN :
        LET ok == Len(token) > 0
            execErr == ~ConvertArgs(<<"int", "[]string">>) \/ dbErr
        IN  /\ Accept(p, [NoRequest EXCEPT !.op = "verify", !.query = token])
            /\ IF ~ok \/ token[1] = ""
               THEN /\ Finish(p, Error(NoResponse, "url Param 'token' is missing", 500))
                    /\ UNCHANGED users
               ELSE IF execErr   \* rows == nil
               THEN /\ Finish(p, Error(NoResponse, "invalid token", 404))
                    /\ UNCHANGED users
               ELSE /\ users' = SetVerified(token)
                    /\ Finish(p, NoResponse)
            /\ UNCHANGED <<loc, mail>>

----------------------------------------------------------------------------
(* sendReset *)

\* the UPDATE sparing a row whose reset token is pending
SetResetToken_keepPending(token, email) ==
    [i \in Rows |-> IF SqlEq(users[i].email, email)
                       /\ users[i].resetToken \in {NULL, ""}
                    THEN [users[i] EXCEPT !.resetToken = token] ELSE users[i]]

\* UPDATE users SET resetToken = ? WHERE email = ?
SetResetToken(token, email) ==
    [i \in Rows |-> IF SqlEq(users[i].email, email)
                    THEN [users[i] EXCEPT !.resetToken = token] ELSE users[i]]

\* sendReset answering 404 when no row has the email
sendReset_unknownEmail(p) ==
    \E email \in Emails \cup {""}, token \in GetRandomBase62(resetTokenSize),
       decodeErr \in BOOLEAN, dbErr \in BOOLEAN :
        /\ Accept(p, [NoRequest EXCEPT !.op = "sendReset", !.email = email])
        /\ IF decodeErr
           THEN /\ Finish(p, Error(NoResponse, "issue retrieving email", 500))
                /\ UNCHANGED <<users, loc>>
           ELSE IF email = ""
           THEN /\ Finish(p, Panic(Error(NoResponse, "invalid email address", 406)))
                /\ UNCHANGED <<users, loc>>
           ELSE IF dbErr
           THEN /\ Finish(p, Error(NoResponse, "error setting resetToken", 500))
                /\ UNCHANGED <<users, loc>>
           ELSE IF ~ExistsEmail(email)
           THEN /\ Finish(p, Error(NoResponse,
                        "this email is not associated with an account", 404))
                /\ UNCHANGED <<users, loc>>
           ELSE /\ users' = SetResetToken(token, email)
                /\ loc' = [loc EXCEPT ![p].newToken = token]
                /\ Continue(p, "sendReset_mail", NoResponse)
        /\ UNCHANGED mail

\* lines 383-418: decode the email, draw the reset token, store it
sendReset(p) ==
    \E email \in Emails \cup {""}, token \in GetRandomBase62(resetTokenSize),
       decodeErr \in BOOLEAN, dbErr \in BOOLEAN :
        /\ Accept(p, [NoRequest EXCEPT !.op = "sendReset", !.email = email])
        /\ IF decodeErr
           THEN /\ Finish(p, Error(NoResponse, "issue retrieving email", 500))
                /\ UNCHANGED <<users, loc>>
           ELSE IF email = ""   \* err is nil here: log.Print(err.Error()) panics
           THEN /\ Finish(p, Panic(Error(NoResponse, "invalid email address", 406)))
                /\ UNCHANGED <<users, loc>>
           ELSE IF dbErr
           THEN /\ Finish(p, Error(NoResponse, "error setting resetToken", 500))
                /\ UNCHANGED <<users, loc>>
           ELSE /\ users' = SetResetToken(token, email)
                /\ loc' = [loc EXCEPT ![p].newToken = token]
                /\ Continue(p, "sendReset_mail", NoResponse)
        /\ UNCHANGED mail

\* lines 420-428: the reset e-mail
sendReset_mail(p) ==
    \E mailErr \in BOOLEAN :
        /\ pc[p] = "sendReset_mail"
        /\ IF mailErr
           THEN /\ Finish(p, Error(resp[p], "error sending verification email", 500))
                /\ UNCHANGED mail
           ELSE /\ mail' = [mail EXCEPT ![p] = Append(@,
                      [to |-> req[p].email, subject |-> "BearChat Password Reset",
                       template |-> "password-reset.html", Token |-> loc[p].newToken])]
                /\ Finish(p, resp[p])
        /\ UNCHANGED <<users, req, loc, accepted>>

----------------------------------------------------------------------------
(* resetPassword *)

\* SELECT EXISTS(SELECT * FROM users WHERE username = ? AND resetToken = ?)
ExistsUsernameAndResetToken(username, token) ==
    \E i \in Rows : SqlEq(users[i].username, username)
                    /\ SqlEq(users[i].resetToken, token)

\* UPDATE users SET resetToken = "", password = ? WHERE email = ?
SetPassword(hashed, email) ==
    [i \in Rows |-> IF SqlEq(users[i].email, email)
                    THEN [users[i] EXCEPT !.resetToken = "", !.password = hashed]
                    ELSE users[i]]

\* lines 440-497: read token and credentials, reject empty fields, look the
\* (username, token) pair up
resetPassword(p) ==
    \E token \in GetRandomBase62(resetTokenSize) \cup {""},
       username \in Usernames \cup {""}, email \in Emails \cup {""},
       password \in Passwords \cup {""},
       decodeErr \in BOOLEAN, dbErr \in BOOLEAN :
        /\ Accept(p, [NoRequest EXCEPT !.op = "resetPassword", !.token = token,
                         !.username = username, !.email = email,
                         !.password = password])
        /\ IF decodeErr
           THEN Finish(p, Error(NoResponse, "issue retrieving credentials", 500))
           ELSE IF username = ""   \* err is nil on the three paths below
           THEN Finish(p, Panic(Error(NoResponse, "invalid username", 406)))
           ELSE IF email = ""
           THEN Finish(p, Panic(Error(NoResponse, "invalid email address", 406)))
           ELSE IF password = ""
           THEN Finish(p, Panic(Error(NoResponse, "invalid password", 406)))
           ELSE IF dbErr
           THEN Finish(p, Error(NoResponse,
                    "issue retrieving username and token pair", 500))
           ELSE IF ~ExistsUsernameAndResetToken(username, token)
           THEN \* err is nil here too
                Finish(p, Panic(Error(NoResponse,
                    "username and token pair does not exist", 404)))
           ELSE Continue(p, "resetPassword_update", NoResponse)
        /\ UNCHANGED <<users, loc, mail>>

\* lines 499-521: hash the new password, write it where the email matches
resetPassword_update(p) ==
    \E hashErr \in BOOLEAN, dbErr \in BOOLEAN :
        LET hashed == GenerateFromPassword(req[p].password)
        IN  /\ pc[p] = "resetPassword_update"
            /\ IF hashErr   \* logs err, which is nil: hashError holds the error
               THEN /\ Finish(p, Panic(Error(resp[p], "error encrypting password", 500)))
                    /\ UNCHANGED <<users, loc>>
               ELSE IF dbErr
               THEN /\ Finish(p, Error(resp[p], "sql: error", 400))
                    /\ loc' = [loc EXCEPT ![p].hashed = hashed]
                    /\ UNCHANGED users
               ELSE /\ users' = SetPassword(hashed, req[p].email)
                    /\ loc' = [loc EXCEPT ![p].hashed = hashed]
                    /\ Finish(p, resp[p])
            /\ UNCHANGED <<req, mail, accepted>>

----------------------------------------------------------------------------
Handler(p) ==
    \/ signup(p) \/ signup_email(p) \/ signup_hash(p) \/ signup_insert(p)
    \/ signup_access(p) \/ signup_refresh(p) \/ signup_mail(p)
    \/ signin(p) \/ signin_access(p) \/ signin_refresh(p)
    \/ logout(p)
    \/ verify(p)
    \/ sendReset(p) \/ sendReset_mail(p)
    \/ resetPassword(p) \/ resetPassword_update(p)
    \/ Respond(p)

\* Requests served one after the other by one goroutine
Next == \E p \in {1} : Handler(p)

Spec == Init /\ [][Next]_vars

\* Signups arriving together, each served by its own goroutine
NextSignups == \E p \in Procs :
    \/ signup(p) \/ signup_email(p) \/ signup_hash(p) \/ signup_insert(p)
    \/ signup_access(p) \/ signup_refresh(p) \/ signup_mail(p)

SpecSignups == Init /\ [][NextSignups]_vars

\* The table after signup(alice, alice@x.com, pw1) and a reset request for
\* alice@x.com have been served: one row, holding a pending reset token
InitResets ==
    /\ \E token \in GetRandomBase62(resetTokenSize) :
            users = <<[NewRow("alice", "alice@x.com", GenerateFromPassword("pw1"),
                              "T1", 1) EXCEPT !.resetToken = token]>>
    /\ pc = [p \in Procs |-> "idle"]
    /\ req = [p \in Procs |-> NoRequest]
    /\ resp = [p \in Procs |-> NoResponse]
    /\ loc = [p \in Procs |-> NoLocals]
    /\ mail = [p \in Procs |-> <<>>]
    /\ accepted = 2

\* Reset requests and password resets arriving together, each served by its
\* own goroutine
NextResets == \E p \in Procs :
    \/ sendReset(p) \/ sendReset_mail(p)
    \/ resetPassword(p) \/ resetPassword_update(p)

SpecResets == InitResets /\ [][NextResets]_vars

----------------------------------------------------------------------------
(* The outcome of a request in the terms of the error taxonomy: the name of  *)
(* what the handler wrote, by status and message.  A panicking handler       *)
(* delivers nothing.                                                         *)

OutcomeOf(r, op) ==
    IF r.panicked THEN "Aborted"
    ELSE IF r.status \in {200, 201} THEN
        CASE op = "signup"        -> "Created"
          [] op = "signin"        -> "Authenticated"
          [] op = "logout"        -> "LoggedOut"
          [] op = "verify"        -> "Verified"
          [] op = "sendReset"     -> "ResetRequested"
          [] op = "resetPassword" -> "PasswordChanged"
          [] OTHER                -> "None"
    ELSE
        CASE r.body = "this username is taken" -> "UsernameTaken"
          [] r.body = "this email is taken" -> "EmailTaken"
          [] r.body = "this email is not associated with an account" -> "NotFound"
          [] r.body = "incorrect password" -> "BadCredentials"
          [] r.body = "url Param 'token' is missing" -> "MissingToken"
          [] r.body = "invalid token" -> "InvalidToken"
          [] r.body = "invalid email address" /\ op = "sendReset" -> "InvalidEmail"
          [] r.body \in {"invalid username", "invalid email address",
                         "invalid password"} /\ op = "resetPassword" -> "MissingField"
          [] r.body = "username and token pair does not exist" -> "InvalidResetPair"
          [] r.body \in {"error encrypting password",
                         "hashed password does not match original"} -> "HashingError"
          [] r.body \in {"error generating access token",
                         "error creating refreshToken"} -> "SigningError"
          [] r.body = "error sending verification email" -> "NotificationError"
          [] r.body \in {"issue retrieving email", "issue retrieving credentials"}
                \/ (r.body = "issue storing credentials" /\ op = "signin")
                -> "DecodeError"
          [] r.body \in {"error checking if username exists",
                         "error checking if email exists",
                         "issue storing credentials",
                         "error retrieving information with this email",
                         "error setting resetToken",
                         "issue retrieving username and token pair",
                         "sql: error"} -> "StorageError"
          [] OTHER -> "None"

Outcome(p) == OutcomeOf(resp[p], req[p].op)

\* a collaborator (decoder, store, hasher, signer, mailer) failed under p
InternalFailure(p) ==
    resp[p].body \in {"issue retrieving email", "issue retrieving credentials",
                      "issue storing credentials",
                      "error checking if username exists",
                      "error checking if email exists",
                      "error retrieving information with this email",
                      "error setting resetToken",
                      "issue retrieving username and token pair", "sql: error",
                      "error encrypting password",
                      "hashed password does not match original",
                      "error generating access token",
                      "error creating refreshToken",
                      "error sending verification email"}

\* p takes a step of its handler and ends it
Returns(p) == pc[p] # "done" /\ pc'[p] = "done"

----------------------------------------------------------------------------
(* Claims *)

\* row i of the table differs from what it was in its credentials or tokens
CredentialsChanged(i) ==
    \/ users'[i].hashedPassword # users[i].hashedPassword
    \/ users'[i].password # users[i].password
    \/ users'[i].resetToken # users[i].resetToken

\* p is a resetPassword request whose UPDATE went through
ResetSucceeds(p) ==
    /\ pc[p] = "resetPassword_update"
    /\ Returns(p)
    /\ OutcomeOf(resp'[p], req[p].op) = "PasswordChanged"

\* C1: a successful CompleteReset(username, email, password, token) changes
\* the password hash, and clears the reset token, only of the identity that
\* has the given username and holds the given token; whatever email the
\* request carries, no other identity is touched.
C1_ResetTouchesOnlyTokenHolder ==
    [][\A p \in Procs : ResetSucceeds(p) =>
        \A i \in Rows : CredentialsChanged(i) =>
            /\ users[i].username = req[p].username
            /\ users[i].resetToken = req[p].token]_vars

\* C2: CompleteReset with non-empty username, email and password returns
\* PasswordChanged exactly when the store holds the (username, token) pair at
\* the time of the call; otherwise it returns InvalidResetPair and changes
\* nothing.  (Calls on which the decoder, the store or the hasher fails are
\* left aside.)
C2_ResetIffPairMatches ==
    [][\A p \in Procs :
        /\ ( /\ pc[p] = "idle" /\ pc'[p] # "idle"
             /\ req'[p].op = "resetPassword"
             /\ req'[p].username # "" /\ req'[p].email # "" /\ req'[p].password # ""
             /\ ~InternalFailure(p)' )
           => IF ExistsUsernameAndResetToken(req'[p].username, req'[p].token)
              THEN pc'[p] = "resetPassword_update"
              ELSE /\ pc'[p] = "done"
                   /\ OutcomeOf(resp'[p], req'[p].op) = "InvalidResetPair"
                   /\ users' = users
        /\ ( /\ pc[p] = "resetPassword_update" /\ Returns(p)
             /\ ~InternalFailure(p)' )
           => OutcomeOf(resp'[p], req'[p].op) = "PasswordChanged"]_vars

\* C3: a reset token is single-use: once a CompleteReset presenting
\* (username, T) has completed, with success or with InvalidResetPair, the
\* pair (username, T) no longer passes the pair check of CompleteReset, so
\* that a later attempt with the same pair fails until a new RequestReset.
C3_ResetTokenSingleUse ==
    [][\A p \in Procs :
        ( /\ req[p].op = "resetPassword"
          /\ Returns(p)
          /\ OutcomeOf(resp'[p], req[p].op) \in {"PasswordChanged", "InvalidResetPair"} )
        => ~ExistsUsernameAndResetToken(req[p].username, req[p].token)']_vars

\* C4: after CompleteReset(username, email, newPassword, T) returned
\* PasswordChanged for the identity with that username and email, the hash
\* Signin compares against accepts newPassword and rejects every other
\* password, the old one included.
C4_SigninSeesResetPassword ==
    [][\A p \in Procs : ResetSucceeds(p) =>
        \A i \in Rows :
            (users[i].username = req[p].username /\ users[i].email = req[p].email)
            => /\ SigninVerifies(i, req[p].password)'
               /\ \A old \in Passwords \ {req[p].password} : ~SigninVerifies(i, old)']_vars

\* C5: for an identity created by Signup with verification token T1 and not
\* yet verified, a Verify presenting T1 returns Verified and sets the
\* identity's verified flag.
C5_VerifyWithIssuedToken ==
    [][\A p \in Procs :
        ( /\ pc[p] = "idle" /\ Returns(p)
          /\ req'[p].op = "verify"
          /\ Len(req'[p].query) > 0
          /\ \E i \in Rows : users[i].verified = 0
                             /\ users[i].verifiedToken = req'[p].query[1] )
        => /\ OutcomeOf(resp'[p], req'[p].op) = "Verified"
           /\ \A i \in Rows : users[i].verifiedToken = req'[p].query[1]
                              => users'[i].verified = 1]_vars

\* C6: a Verify presenting a non-empty token that no identity holds as its
\* verification token ends in InvalidToken (NotFound), never in Verified, and
\* leaves the table as it was.
C6_VerifyUnknownToken ==
    [][\A p \in Procs :
        ( /\ pc[p] = "idle" /\ pc'[p] # "idle"
          /\ req'[p].op = "verify"
          /\ Len(req'[p].query) > 0 /\ req'[p].query[1] # ""
          /\ \A i \in Rows : users[i].verifiedToken # req'[p].query[1] )
        => /\ pc'[p] = "done"
           /\ OutcomeOf(resp'[p], req'[p].op) = "InvalidToken"
           /\ resp'[p].status = 404
           /\ users' = users]_vars

C6_Witness ==
    \E p \in Procs :
        /\ pc[p] = "done" /\ req[p].op = "verify"
        /\ Len(req[p].query) > 0 /\ req[p].query[1] # ""
        /\ users # <<>>
        /\ \A i \in Rows : users[i].verifiedToken # req[p].query[1]
        /\ Outcome(p) = "InvalidToken"

\* C7: a Signup whose username is already in the table, or whose email is,
\* ends in Conflict (UsernameTaken, EmailTaken; a failing lookup ends in
\* StorageError instead), and in every case leaves the table unchanged, sets
\* no session cookie and sends no e-mail.
C7_SignupConflict ==
    [][\A p \in Procs :
        /\ ( /\ pc[p] = "idle" /\ pc'[p] # "idle" /\ req'[p].op = "signup"
             /\ ExistsUsername(req'[p].username) )
           => /\ pc'[p] = "done"
              /\ users' = users /\ resp'[p].cookies = <<>> /\ mail'[p] = <<>>
              /\ resp'[p].status \in {409, 500}
              /\ ~InternalFailure(p)'
                    => OutcomeOf(resp'[p], req'[p].op) = "UsernameTaken"
        /\ ( /\ pc[p] = "idle" /\ pc'[p] # "idle" /\ req'[p].op = "signup"
             /\ ExistsEmail(req'[p].email) )
           => /\ pc'[p] \in {"signup_email", "done"}
              /\ users' = users /\ resp'[p].cookies = <<>> /\ mail'[p] = <<>>
        /\ ( /\ pc[p] = "signup_email" /\ pc'[p] # pc[p]
             /\ ExistsEmail(req[p].email) )
           => /\ pc'[p] = "done"
              /\ users' = users /\ resp'[p].cookies = <<>> /\ mail'[p] = <<>>
              /\ resp'[p].status \in {409, 500}
              /\ ~InternalFailure(p)'
                    => OutcomeOf(resp'[p], req'[p].op) = "EmailTaken"]_vars

C7_Witness ==
    \E p \in Procs :
        /\ pc[p] = "done" /\ req[p].op = "signup"
        /\ Outcome(p) = "EmailTaken"
        /\ \E i \in Rows : users[i].email = req[p].email
                           /\ users[i].username # req[p].username

\* C8: no two rows of the table share a username and no two share an email,
\* and two Signups with the same username never both return Created, also
\* when the steps of the Signups interleave.
C8_UniqueUsernameAndEmail ==
    /\ \A i, j \in Rows : i # j =>
          /\ users[i].username # users[j].username
          /\ users[i].email # users[j].email
    /\ \A p, q \in Procs :
          ( /\ p # q
            /\ pc[p] = "done" /\ pc[q] = "done"
            /\ req[p].op = "signup" /\ req[q].op = "signup"
            /\ req[p].username = req[q].username )
          => ~(Outcome(p) = "Created" /\ Outcome(q) = "Created")

\* the cookies of a session of the identity userId, in the order signin sets them
IsSession(cookies, userId) ==
    /\ Len(cookies) = 2
    /\ cookies[1].Name = "access_token" /\ cookies[2].Name = "refresh_token"
    /\ cookies[1].Value[1].Subject = "access"
    /\ cookies[2].Value[1].Subject = "refresh"
    /\ \A k \in 1..2 : cookies[k].Value[1].UserID = userId

\* C9: Signin issues the access and the refresh token exactly when a row
\* exists for the email and the password verifies against the row's stored
\* hash (and no decoder, store or signer call fails); an unknown email ends
\* in NotFound, a wrong password in BadCredentials, both without any cookie;
\* no step of Signin changes the table.
C9_SigninIssuesIffCredentials ==
    [][\A p \in Procs :
        /\ ( pc[p] = "idle" /\ pc'[p] # "idle" /\ req'[p].op = "signin" )
           => LET email == req'[p].email
                  good  == \E i \in Rows : /\ SqlEq(users[i].email, email)
                                           /\ SigninVerifies(i, req'[p].password)
              IN  /\ users' = users
                  /\ resp'[p].cookies = <<>>
                  /\ ~good => pc'[p] = "done"
                  /\ ~InternalFailure(p)' =>
                        /\ ~ExistsEmail(email)
                              => OutcomeOf(resp'[p], "signin") = "NotFound"
                        /\ (ExistsEmail(email) /\ ~good)
                              => OutcomeOf(resp'[p], "signin") = "BadCredentials"
                        /\ good => pc'[p] = "signin_access"
        /\ ( pc[p] \in {"signin_access", "signin_refresh"} /\ pc'[p] # pc[p] )
           => /\ users' = users
              /\ \E i \in Rows : /\ SqlEq(users[i].email, req[p].email)
                                 /\ SigninVerifies(i, req[p].password)
                                 /\ users[i].userId = loc[p].userID
              /\ ~InternalFailure(p)' =>
                    IF pc[p] = "signin_access"
                    THEN pc'[p] = "signin_refresh" /\ Len(resp'[p].cookies) = 1
                    ELSE /\ pc'[p] = "done"
                         /\ OutcomeOf(resp'[p], "signin") = "Authenticated"
                         /\ IsSession(resp'[p].cookies, loc[p].userID)]_vars

C9_Witness ==
    \E p \in Procs :
        /\ pc[p] = "done" /\ req[p].op = "signin"
        /\ Outcome(p) = "Authenticated"
        /\ IsSession(resp[p].cookies, loc[p].userID)
        /\ \E i \in Rows : users[i].email = req[p].email
                           /\ users[i].userId = loc[p].userID

C11_ResetRequestHidesExistence ==
    [][\A p \in Procs :
        /\ ( /\ pc[p] = "idle" /\ pc'[p] # "idle"
             /\ req'[p].op = "sendReset" /\ req'[p].email # "" )
           => /\ ~ExistsEmail(req'[p].email) => users' = users
              /\ \/ pc'[p] = "sendReset_mail" /\ resp'[p] = NoResponse
                 \/ pc'[p] = "done" /\ InternalFailure(p)'
        /\ ( pc[p] = "sendReset_mail" /\ pc'[p] # pc[p] )
           => /\ users' = users
              /\ pc'[p] = "done"
              /\ \/ InternalFailure(p)'
                 \/ /\ OutcomeOf(resp'[p], req[p].op) = "ResetRequested"
                    /\ resp'[p] = Return(NoResponse)
                    /\ Len(mail'[p]) = 1 /\ mail'[p][1].to = req[p].email]_vars

C11_Witness ==
    \E p \in Procs :
        /\ pc[p] = "done" /\ req[p].op = "sendReset"
        /\ req[p].email # "" /\ ~ExistsEmail(req[p].email)
        /\ users # <<>>
        /\ Outcome(p) = "ResetRequested"

SignupOrder ==
    <<"idle", "signup_email", "signup_hash", "signup_insert",
      "signup_access", "signup_refresh", "signup_mail", "done">>

SignupSuccessor(at) ==
    LET k == CHOOSE k \in 1..Len(SignupOrder) : SignupOrder[k] = at
    IN  IF k < Len(SignupOrder) THEN SignupOrder[k + 1] ELSE "idle"

\* C14: a Signup runs username check, email check, hashing, INSERT, access
\* token, refresh token, e-mail in this order, each step either going on to
\* the next or ending the request; the row is inserted, a cookie is set and
\* the e-mail is sent only by the step of that name when it succeeds, and a
\* request that a step ended with a failure has no effect of a later step:
\* no row after a failed check or hash, no cookie after a failed INSERT, no
\* e-mail after a failed signing.
C14_SignupStepOrder ==
    [][\A p \in Procs :
        ( req'[p].op = "signup" /\ pc'[p] # pc[p] ) =>
            LET at == pc[p]
                to == pc'[p]
                ok == to = SignupSuccessor(at) /\ resp'[p].body = ""
                cookies == Len(resp[p].cookies)
                cookies2 == Len(resp'[p].cookies)
            IN  /\ to \in {SignupSuccessor(at), "done"}
                /\ ok \/ (to = "done" /\ resp'[p].status \in {409, 500})
                /\ Len(users') > Len(users) <=> (at = "signup_insert" /\ ok)
                /\ users' # users => Len(users') = Len(users) + 1
                /\ cookies2 = cookies + 1
                      <=> (at \in {"signup_access", "signup_refresh"} /\ ok)
                /\ cookies2 # cookies + 1 => cookies2 = cookies
                /\ mail'[p] # mail[p] <=> (at = "signup_mail" /\ ok)
                /\ at \in {"idle", "signup_email", "signup_hash", "signup_insert"}
                      => cookies = 0 /\ mail[p] = <<>>
                /\ at \in {"idle", "signup_email", "signup_hash"}
                      => loc[p].userID = 0
                /\ at = "signup_access" => cookies = 0 /\ loc[p].userID # 0
                /\ at = "signup_refresh" => cookies = 1 /\ mail[p] = <<>>
                /\ at = "signup_mail" => cookies = 2 /\ mail[p] = <<>>
                /\ (to = "done" /\ ~ok) =>
                      /\ users' = users /\ mail'[p] = mail[p] /\ cookies2 = cookies
                      /\ loc'[p] = loc[p]]_vars

C14_Witness ==
    \E p \in Procs :
        /\ pc[p] = "done" /\ req[p].op = "signup"
        /\ Outcome(p) = "SigningError"
        /\ Len(resp[p].cookies) = 1 /\ mail[p] = <<>>
        /\ loc[p].userID \in Rows

\* C15: a Signup whose e-mail fails after its INSERT succeeded leaves the row
\* it inserted in the table and answers with the notification failure, an
\* outcome that is not Created and that no Signup that stored nothing gets.
C15_NotificationFailureDistinct ==
    \A p \in Procs :
        ( pc[p] = "done" /\ req[p].op = "signup" ) =>
            /\ ( /\ loc[p].userID # 0 /\ Len(resp[p].cookies) = 2
                 /\ mail[p] = <<>> )
               => /\ Outcome(p) = "NotificationError"
                  /\ resp[p].status # 201
                  /\ loc[p].userID \in Rows
                  /\ users[loc[p].userID].username = req[p].username
                  /\ users[loc[p].userID].email = req[p].email
            /\ loc[p].userID = 0
               => Outcome(p) \notin {"NotificationError", "Created"}
            /\ Outcome(p) = "Created" => mail[p] # <<>>

C15_Witness ==
    \E p \in Procs :
        /\ pc[p] = "done" /\ req[p].op = "signup"
        /\ Outcome(p) = "NotificationError"
        /\ loc[p].userID \in Rows
        /\ users[loc[p].userID].username = req[p].username

\* C16: whatever other requests run in between, a CompleteReset writes the
\* new password hash only if the (username, resetToken) pair it presented
\* still matches a row at the moment of the write; so of two CompleteResets
\* presenting the same pair only one changes the password, and a
\* CompleteReset whose token a RequestReset has replaced changes nothing.
C16_ResetWritesOnlyIfPairStillMatches ==
    [][\A p \in Procs :
        ( pc[p] = "resetPassword_update" /\ Returns(p) ) =>
            IF ExistsUsernameAndResetToken(req[p].username, req[p].token)
            THEN TRUE
            ELSE /\ users' = users
                 /\ OutcomeOf(resp'[p], req[p].op) # "PasswordChanged"]_vars

\* C17: a RequestReset whose UPDATE goes through puts its new token T' in
\* the place of whatever reset token the identity of that email held, and
\* changes no other field and no other identity; from then on the pair check
\* of CompleteReset passes for (username, T') and for no other token, an
\* older token T included; a CompleteReset whose pair does not pass changes
\* nothing and does not return PasswordChanged, and one whose pair passes
\* returns PasswordChanged unless the decoder, the store or the hasher fails.
C17_ResetRequestOverwritesToken ==
    [][\A p \in Procs :
        /\ ( pc[p] = "idle" /\ req'[p].op = "sendReset"
             /\ pc'[p] = "sendReset_mail" )
           => /\ Len(users') = Len(users)
              /\ loc'[p].newToken \in GetRandomBase62(resetTokenSize)
              /\ \A i \in Rows :
                    IF users[i].email = req'[p].email
                    THEN /\ users'[i] = [users[i] EXCEPT
                                            !.resetToken = loc'[p].newToken]
                         /\ \A T \in GetRandomBase62(resetTokenSize) \cup {""} :
                              ExistsUsernameAndResetToken(users[i].username, T)'
                                 <=> T = loc'[p].newToken
                    ELSE users'[i] = users[i]
        /\ ( req'[p].op = "sendReset" /\ pc'[p] = "done" ) => users' = users
        /\ ( /\ pc[p] = "idle" /\ req'[p].op = "resetPassword"
             /\ req'[p].username # "" /\ req'[p].email # "" /\ req'[p].password # ""
             /\ ~InternalFailure(p)' )
           => IF ExistsUsernameAndResetToken(req'[p].username, req'[p].token)
              THEN pc'[p] = "resetPassword_update"
              ELSE /\ pc'[p] = "done"
                   /\ OutcomeOf(resp'[p], req'[p].op) # "PasswordChanged"
                   /\ users' = users
        /\ ( /\ pc[p] = "resetPassword_update" /\ pc'[p] # pc[p]
             /\ ~InternalFailure(p)' )
           => OutcomeOf(resp'[p], req[p].op) = "PasswordChanged"]_vars

\* a CompleteReset presenting a token has been turned down while the identity
\* holds another, pending token
C17_Witness ==
    \E p \in Procs :
        /\ pc[p] = "done" /\ req[p].op = "resetPassword"
        /\ req[p].token \in GetRandomBase62(resetTokenSize)
        /\ Outcome(p) # "PasswordChanged"
        /\ \E i \in Rows :
              /\ users[i].username = req[p].username
              /\ users[i].email = req[p].email
              /\ users[i].resetToken \in GetRandomBase62(resetTokenSize)
              /\ users[i].resetToken # req[p].token

\* the configured lifetime of a session token of the given purpose
TTL(subject) ==
    IF subject = "access" THEN DefaultAccessJWTExpiry ELSE DefaultRefreshJWTExpiry

\* C18: in every session token that a successful Signup or Signin issued,
\* expires-at minus issued-at is exactly the lifetime configured for the
\* token's purpose, and expires-at is after issued-at, also when the clock
\* advances while the handler runs.
C18_TokenLifetimeIsTTL ==
    \A p \in Procs :
        ( pc[p] = "done" /\ Outcome(p) \in {"Created", "Authenticated"} ) =>
            \A k \in 1..Len(resp[p].cookies) :
                LET claims == resp[p].cookies[k].Value[1]
                IN  /\ claims.ExpiresAt - claims.IssuedAt = TTL(claims.Subject)
                    /\ claims.ExpiresAt > claims.IssuedAt

\* C19: a CompleteReset succeeds only for a username of which some row holds
\* a pending reset token: when every row of that username has its resetToken
\* unset or empty, no token value, the empty one included, makes it succeed.
C19_NoResetWithoutPendingToken ==
    [][\A p \in Procs :
        ResetSucceeds(p) =>
            \E i \in Rows : /\ users[i].username = req[p].username
                            /\ users[i].resetToken \notin {NULL, ""}]_vars

\* C20: a RequestReset with an empty email and a CompleteReset with an empty
\* username, email or password or with a pair no row holds end normally,
\* with the outcome InvalidEmail, MissingField or InvalidResetPair and the
\* table unchanged; none of them aborts the handler.  (Calls on which the
\* decoder or the store fails are left aside.)
C20_RejectedInputsEndNormally ==
    [][\A p \in Procs :
        ( pc[p] = "idle" /\ pc'[p] # "idle" /\ ~InternalFailure(p)' ) =>
            /\ ( req'[p].op = "sendReset" /\ req'[p].email = "" )
               => /\ pc'[p] = "done" /\ users' = users
                  /\ ~resp'[p].panicked
                  /\ OutcomeOf(resp'[p], req'[p].op) = "InvalidEmail"
            /\ ( /\ req'[p].op = "resetPassword"
                 /\ "" \in {req'[p].username, req'[p].email, req'[p].password} )
               => /\ pc'[p] = "done" /\ users' = users
                  /\ ~resp'[p].panicked
                  /\ OutcomeOf(resp'[p], req'[p].op) = "MissingField"
            /\ ( /\ req'[p].op = "resetPassword"
                 /\ "" \notin {req'[p].username, req'[p].email, req'[p].password}
                 /\ ~ExistsUsernameAndResetToken(req'[p].username, req'[p].token) )
               => /\ pc'[p] = "done" /\ users' = users
                  /\ ~resp'[p].panicked
                  /\ OutcomeOf(resp'[p], req'[p].op) = "InvalidResetPair"]_vars
====
